---- MODULE Spec2Model ----
(***************************************************************************)
(* A model of the threaded object deleter: the controller thread of        *)
(* ThreadedDeleter.delete (login, container listing, worker start-up,      *)
(* enumeration and add_to_queue, the drain barrier, finish and the         *)
(* container deletes), the worker threads of ThreadedDeleter.delete_object *)
(* with the per-thread bulk buffer of the Cloud Files store, the shared    *)
(* lock, the bounded queue, the finished flag and the signal handler.      *)
(* Each step is one statement (or one lock-protected or thread-local run   *)
(* of statements) of the source; a busy-wait loop is the guard of the step *)
(* that leaves it.                                                         *)
(*                                                                         *)
(* Three store methods are also run on their own, each under its own       *)
(* specification: list_objects of the legacy CloudFiles class and of the   *)
(* Cloud Files Store under the enumeration loop (PageSpec), delete_object  *)
(* with a bulk buffer for one worker, for keys of one container (BulkSpec) *)
(* and of several (GroupSpec), and list_containers of the three store      *)
(* classes (ListSpec).  PollSpec runs the worker loop statement by         *)
(* statement against add_to_queue.  FairSpec adds weak fairness of the     *)
(* threads and LiveSpec strong fairness, which also covers the hand-over   *)
(* of the lock.                                                            *)
(***************************************************************************)
EXTENDS Naturals, Sequences, FiniteSets

\* the largest settings explored, and the page size of the store's listing
MaxThreads == 3
MaxBulk == 2
MaxQueueSize == 2
PageSize == 2

Workers == 1..(MaxThreads - 1)
Containers == {1, 2}
\* the account the run works on: container 1 holds the keys 1, 2 and container 2
\* the key 1
NumObjects == <<2, 1>>
NoTask == <<0, 0>>
Free == 0
Main == MaxThreads

VARIABLES
    max_threads,      \* settings.max_threads
    queue_size,       \* settings.queue_size
    bulk_size,        \* store.bulk_size
    queue,            \* self.queue: Queue.Queue(queue_size)
    lock,             \* self.lock: Free, Main or the worker holding it
    finished,         \* self.finished
    deleted_objects,  \* self.deleted_objects
    threads,          \* self.threads: the started workers, in start order
    pc,               \* position of the controller thread
    ret,              \* where the running finish() returns to
    atq_ret,          \* where the running add_to_queue() returns to
    code,             \* the exit status the process ends with once it unwinds
    status,           \* "running", "0", "1" or "signal"
    containers,       \* delete(): containers
    containers_false, \* list_containers returned False instead of a list
    ci,               \* delete(): index of the current container
    files,            \* delete(): the rest of the listing page
    data,             \* delete(): the local batch
    di,               \* add_to_queue(): index of the current item of data
    ji,               \* finish(): index of the thread being joined
    marker,           \* store.marker
    wpc,              \* position of each worker thread
    task,             \* the (container, object) a worker dequeued
    local,            \* the per-thread object of each worker
    signalled,        \* a signal was delivered
    dequeued,         \* history: number of queue.get() calls that returned
    raised,           \* history: a worker's backend delete raised
    errors,           \* history: the fatal or unrecovered errors that occurred
    dcalls,           \* history: containers delete_container was called for
    inits,            \* history: init_thread calls per worker
    cleanups,         \* history: cleanup_thread calls per worker
    late,             \* history: tasks a worker dequeued while finished was true
    atRaise,          \* history: tasks put on the queue when a delete first raised
    returned,         \* history: a call to finish() has returned
    puts,             \* history: the items the running add_to_queue() has put
    attempts,         \* history: attempts the last delete_container call made
    upc,              \* position of the scenario of a unit specification
    store,            \* the store class a unit specification runs
    store_objects,    \* the keys the backend holds in the container listed
    cf_marker,        \* CloudFiles.marker[container], 0 when it has none
    responses,        \* history: the pages the backend returned, in order
    produced,         \* history: the keys delete() was given to enqueue
    requests,         \* the number of delete requests the worker is to receive
    requested,        \* the number of delete requests it has received
    force_delete,     \* CloudFiles.force_delete
    forced,           \* history: list_objects set force_delete
    bulk_calls,       \* history: the batches bulk-delete was invoked with
    prefixes,         \* list_containers: the prefixes asked for
    provider_listing, \* the container names the provider lists, in its order
    listed,           \* what list_containers returned
    gets,             \* history: each (worker, task) a queue.get() returned
    deletes           \* history: each (worker, task) of a backend delete request

ctl == <<pc, ret, atq_ret, code, status, containers, containers_false, ci,
         files, data, di, ji, marker>>
shared == <<queue, lock, finished, deleted_objects, threads>>
wrk == <<wpc, task, local>>
settings == <<max_threads, queue_size, bulk_size>>
hist == <<signalled, dequeued, raised, errors, dcalls, inits, cleanups,
          late, atRaise>>
log == <<returned, puts, attempts>>
pageVars == <<store_objects, cf_marker, responses, produced>>
bulkVars == <<requests, requested, force_delete, forced, bulk_calls>>
listVars == <<prefixes, provider_listing, listed>>
pollVars == <<gets, deletes>>
unit == <<upc, store, pageVars, bulkVars, listVars, pollVars>>
vars == <<settings, shared, ctl, wrk, hist, log, unit>>

EmptyLocal == [data |-> [c \in Containers |-> <<>>], size |-> 0]

\* the deleter after construction
Deleter ==
    /\ queue = <<>>
    /\ lock = Free
    /\ finished = FALSE
    /\ deleted_objects = 0
    /\ threads = <<>>
    /\ pc = "login"
    /\ ret = "none"
    /\ atq_ret = "none"
    /\ code = 0
    /\ status = "running"
    /\ containers = <<>>
    /\ containers_false = FALSE
    /\ ci = 1
    /\ files = <<>>
    /\ data = <<>>
    /\ di = 1
    /\ ji = 1
    /\ marker = [c \in Containers |-> 0]
    /\ wpc = [w \in Workers |-> "none"]
    /\ task = [w \in Workers |-> NoTask]
    /\ local = [w \in Workers |-> EmptyLocal]
    /\ signalled = FALSE
    /\ dequeued = 0
    /\ raised = FALSE
    /\ errors = {}
    /\ dcalls = {}
    /\ inits = [w \in Workers |-> 0]
    /\ cleanups = [w \in Workers |-> 0]
    /\ late = [w \in Workers |-> 0]
    /\ atRaise = 0
    /\ returned = FALSE
    /\ puts = <<>>
    /\ attempts = 0

\* the deleter and its store after construction, for every setting
Constructed ==
    /\ max_threads \in 1..MaxThreads
    /\ queue_size \in 1..MaxQueueSize
    /\ bulk_size \in 1..MaxBulk
    /\ Deleter

\* no listing has been made
PageIdle ==
    /\ store_objects = {}
    /\ cf_marker = 0
    /\ responses = <<>>
    /\ produced = <<>>

\* no delete request has been made
BulkIdle ==
    /\ requests = 0
    /\ requested = 0
    /\ force_delete = FALSE
    /\ forced = FALSE
    /\ bulk_calls = <<>>

\* no container listing has been made
ListIdle ==
    /\ prefixes = <<>>
    /\ provider_listing = <<>>
    /\ listed = <<>>

\* no worker loop is run on its own
PollIdle ==
    /\ gets = <<>>
    /\ deletes = <<>>

Init ==
    /\ Constructed
    /\ upc = "none"
    /\ store = "none"
    /\ PageIdle
    /\ BulkIdle
    /\ ListIdle
    /\ PollIdle


\* ---------------------------------------------------------------------
\* Queue.Queue(queue_size)
\* ---------------------------------------------------------------------
\* a queue that never reports itself full
fullNever(q) == FALSE

\* Queue.full(): queue_size >= 1 is validated by delete.py, so the queue is bounded
full(q) == Len(q) >= queue_size

empty(q) == Len(q) = 0

qsize(q) == Len(q)

\* self.max_threads / 2, Python 2 integer division
HalfThreads == max_threads \div 2

Ended(w) == wpc[w] \in {"stopped", "dead"}

\* ---------------------------------------------------------------------
\* The controller thread: ThreadedDeleter.delete and what it calls
\* ---------------------------------------------------------------------
\* entering finish() from the controller, to return to r
CallFinish(r) == pc' = "finish" /\ ret' = r

\* object_store.login() returned True
LoginOk ==
    /\ pc = "login"
    /\ pc' = "list_containers"
    /\ UNCHANGED <<ret, atq_ret, code, status, containers, containers_false,
                   ci, files, data, di, ji, marker>>
    /\ UNCHANGED <<settings, shared, wrk, hist>>
    /\ UNCHANGED <<log, unit>>

\* object_store.login() returned False: finish(), sys.exit(1)
LoginFail ==
    /\ pc = "login"
    /\ CallFinish("__exit__")
    /\ code' = 1
    /\ errors' = errors \cup {"login"}
    /\ UNCHANGED <<atq_ret, status, containers, containers_false, ci, files,
                   data, di, ji, marker>>
    /\ UNCHANGED <<settings, shared, wrk>>
    /\ UNCHANGED <<signalled, dequeued, raised, dcalls, inits, cleanups>>
    /\ UNCHANGED <<late, atRaise>>
    /\ UNCHANGED <<log, unit>>

\* list_containers returned the list of matching containers
ListContainersOk ==
    /\ pc = "list_containers"
    /\ containers' = <<1, 2>>
    /\ pc' = "start_threads"
    /\ UNCHANGED <<ret, atq_ret, code, status, containers_false, ci, files,
                   data, di, ji, marker>>
    /\ UNCHANGED <<settings, shared, wrk, hist>>
    /\ UNCHANGED <<log, unit>>

\* list_containers raised: finish() and re-raise
ListContainersRaise ==
    /\ pc = "list_containers"
    /\ CallFinish("__exit__")
    /\ code' = 1
    /\ errors' = errors \cup {"list_containers"}
    /\ UNCHANGED <<atq_ret, status, containers, containers_false, ci, files,
                   data, di, ji, marker>>
    /\ UNCHANGED <<settings, shared, wrk>>
    /\ UNCHANGED <<signalled, dequeued, raised, dcalls, inits, cleanups>>
    /\ UNCHANGED <<late, atRaise>>
    /\ UNCHANGED <<log, unit>>

\* list_containers of the stores returned False after its retries: delete()
\* goes on to start the threads and fails when it iterates the result
ListContainersFalse ==
    /\ pc = "list_containers"
    /\ containers_false' = TRUE
    /\ pc' = "start_threads"
    /\ errors' = errors \cup {"list_containers"}
    /\ UNCHANGED <<ret, atq_ret, code, status, containers, ci, files, data,
                   di, ji, marker>>
    /\ UNCHANGED <<settings, shared, wrk>>
    /\ UNCHANGED <<signalled, dequeued, raised, dcalls, inits, cleanups>>
    /\ UNCHANGED <<late, atRaise>>
    /\ UNCHANGED <<log, unit>>

\* for index in range(1, self.max_threads): start one thread and append it
StartThread ==
    /\ pc = "start_threads"
    /\ Len(threads) < max_threads - 1
    /\ LET w == Len(threads) + 1 IN
        /\ wpc' = [wpc EXCEPT ![w] = "init"]
        /\ threads' = Append(threads, w)
    /\ UNCHANGED <<queue, lock, finished, deleted_objects>>
    /\ UNCHANGED <<task, local>>
    /\ UNCHANGED <<settings, ctl, hist>>
    /\ UNCHANGED <<log, unit>>

\* a loop over the containers that takes a False listing for an empty one
ThreadsStartedIgnoreFalse ==
    /\ pc = "start_threads"
    /\ Len(threads) = max_threads - 1
    /\ pc' = "for_container"
    /\ ci' = 1
    /\ UNCHANGED <<ret, atq_ret, code, status, containers, containers_false,
                   files, data, di, ji, marker>>
    /\ UNCHANGED <<settings, shared, wrk, hist>>
    /\ UNCHANGED <<log, unit>>

\* all threads started; for container in containers (a TypeError when the
\* listing returned False)
ThreadsStarted ==
    /\ pc = "start_threads"
    /\ Len(threads) = max_threads - 1
    /\ IF containers_false
          THEN pc' = "__exit__" /\ code' = 1
          ELSE pc' = "for_container" /\ code' = code
    /\ ci' = 1
    /\ UNCHANGED <<ret, atq_ret, status, containers, containers_false, files,
                   data, di, ji, marker>>
    /\ UNCHANGED <<settings, shared, wrk, hist>>
    /\ UNCHANGED <<log, unit>>

\* for container in containers: the next container, or the drain barrier
ForContainer ==
    /\ pc = "for_container"
    /\ pc' = IF ci > Len(containers) THEN "barrier" ELSE "while_finished"
    /\ UNCHANGED <<ret, atq_ret, code, status, containers, containers_false,
                   ci, files, data, di, ji, marker>>
    /\ UNCHANGED <<settings, shared, wrk, hist>>
    /\ UNCHANGED <<log, unit>>

\* while not self.finished
WhileNotFinished ==
    /\ pc = "while_finished"
    /\ IF finished
          THEN pc' = "for_container" /\ ci' = ci + 1
          ELSE pc' = "list_objects" /\ ci' = ci
    /\ UNCHANGED <<ret, atq_ret, code, status, containers, containers_false,
                   files, data, di, ji, marker>>
    /\ UNCHANGED <<settings, shared, wrk, hist>>
    /\ UNCHANGED <<log, unit>>

\* the page a marker listing returns: the keys after the marker, at most PageSize
Page(c) == [i \in 1..(IF NumObjects[c] - marker[c] < PageSize
                         THEN NumObjects[c] - marker[c] ELSE PageSize)
              |-> marker[c] + i]

\* files = list_objects(container): an empty page ends the container
ListObjectsOk ==
    /\ pc = "list_objects"
    /\ LET c == containers[ci]
           page == Page(c) IN
        /\ files' = page
        /\ IF Len(page) = 0
              THEN /\ marker' = marker
                   /\ pc' = "for_container"
                   /\ ci' = ci + 1
              ELSE /\ marker' = [marker EXCEPT ![c] = page[Len(page)]]
                   /\ pc' = "for_file"
                   /\ ci' = ci
    /\ UNCHANGED <<ret, atq_ret, code, status, containers, containers_false,
                   data, di, ji>>
    /\ UNCHANGED <<settings, shared, wrk, hist>>
    /\ UNCHANGED <<log, unit>>

\* list_objects raised: finish() and re-raise
ListObjectsRaise ==
    /\ pc = "list_objects"
    /\ CallFinish("__exit__")
    /\ code' = 1
    /\ errors' = errors \cup {"list_objects"}
    /\ UNCHANGED <<atq_ret, status, containers, containers_false, ci, files,
                   data, di, ji, marker>>
    /\ UNCHANGED <<settings, shared, wrk>>
    /\ UNCHANGED <<signalled, dequeued, raised, dcalls, inits, cleanups>>
    /\ UNCHANGED <<late, atRaise>>
    /\ UNCHANGED <<log, unit>>

\* a for loop that appends every file of the page and never hands the batch
\* to add_to_queue
ForFileNoFlush ==
    /\ pc = "for_file"
    /\ files # <<>>
    /\ data' = Append(data, <<containers[ci], Head(files)>>)
    /\ files' = Tail(files)
    /\ UNCHANGED <<pc, ret, atq_ret, code, status, containers,
                   containers_false, ci, di, ji, marker>>
    /\ UNCHANGED <<settings, shared, wrk, hist>>
    /\ UNCHANGED <<log, unit>>

\* for file in files: append to the batch; hand the batch to add_to_queue once
\* it holds more than max_threads / 2 items
ForFile ==
    /\ pc = "for_file"
    /\ files # <<>>
    /\ data' = Append(data, <<containers[ci], Head(files)>>)
    /\ files' = Tail(files)
    /\ IF Len(data') > HalfThreads
          THEN pc' = "atq_acquire" /\ atq_ret' = "for_file"
          ELSE pc' = pc /\ atq_ret' = atq_ret
    /\ UNCHANGED <<ret, code, status, containers, containers_false, ci, di,
                   ji, marker>>
    /\ UNCHANGED <<settings, shared, wrk, hist>>
    /\ UNCHANGED <<log, unit>>

\* while self.queue.qsize() > self.max_threads / 2: sleep; then the leftovers
Throttle ==
    /\ pc = "for_file"
    /\ files = <<>>
    /\ ~(qsize(queue) > HalfThreads)
    /\ IF Len(data) > 0
          THEN pc' = "atq_acquire" /\ atq_ret' = "while_finished"
          ELSE pc' = "while_finished" /\ atq_ret' = atq_ret
    /\ UNCHANGED <<ret, code, status, containers, containers_false, ci, files,
                   data, di, ji, marker>>
    /\ UNCHANGED <<settings, shared, wrk, hist>>
    /\ UNCHANGED <<log, unit>>

\* add_to_queue: self.lock.acquire()
AtqAcquire ==
    /\ pc = "atq_acquire"
    /\ lock = Free
    /\ lock' = Main
    /\ di' = 1
    /\ puts' = <<>>
    /\ pc' = "atq_put"
    /\ UNCHANGED <<queue, finished, deleted_objects, threads>>
    /\ UNCHANGED <<ret, atq_ret, code, status, containers, containers_false,
                   ci, files, data, ji, marker>>
    /\ UNCHANGED <<settings, wrk, hist>>
    /\ UNCHANGED <<returned, attempts, unit>>

\* a put that forgets self.deleted_objects += 1
AtqPutUncounted ==
    /\ pc = "atq_put"
    /\ di <= Len(data)
    /\ ~full(queue)
    /\ queue' = Append(queue, data[di])
    /\ puts' = Append(puts, data[di])
    /\ di' = di + 1
    /\ UNCHANGED <<lock, finished, deleted_objects, threads>>
    /\ UNCHANGED <<pc, ret, atq_ret, code, status, containers,
                   containers_false, ci, files, data, ji, marker>>
    /\ UNCHANGED <<settings, wrk, hist>>
    /\ UNCHANGED <<returned, attempts, unit>>

\* self.queue.put(item, False) succeeded
AtqPut ==
    /\ pc = "atq_put"
    /\ di <= Len(data)
    /\ ~full(queue)
    /\ queue' = Append(queue, data[di])
    /\ puts' = Append(puts, data[di])
    /\ deleted_objects' = deleted_objects + 1
    /\ di' = di + 1
    /\ UNCHANGED <<lock, finished, threads>>
    /\ UNCHANGED <<pc, ret, atq_ret, code, status, containers,
                   containers_false, ci, files, data, ji, marker>>
    /\ UNCHANGED <<settings, wrk, hist>>
    /\ UNCHANGED <<returned, attempts, unit>>

\* a put that gives the item up when the queue is full
AtqFullDrop ==
    /\ pc = "atq_put"
    /\ di <= Len(data)
    /\ full(queue)
    /\ di' = di + 1
    /\ UNCHANGED <<pc, ret, atq_ret, code, status, containers,
                   containers_false, ci, files, data, ji, marker>>
    /\ UNCHANGED <<settings, shared, wrk, hist>>
    /\ UNCHANGED <<log, unit>>

\* self.queue.put(item, False) raised Queue.Full: release the lock
AtqFull ==
    /\ pc = "atq_put"
    /\ di <= Len(data)
    /\ full(queue)
    /\ lock' = Free
    /\ pc' = "atq_wait"
    /\ UNCHANGED <<queue, finished, deleted_objects, threads>>
    /\ UNCHANGED <<ret, atq_ret, code, status, containers, containers_false,
                   ci, files, data, di, ji, marker>>
    /\ UNCHANGED <<settings, wrk, hist>>
    /\ UNCHANGED <<log, unit>>

\* a wait that goes on to the blocking put without polling for space
AtqWaitNoPoll ==
    /\ pc = "atq_wait"
    /\ pc' = "atq_reacquire"
    /\ UNCHANGED <<ret, atq_ret, code, status, containers, containers_false,
                   ci, files, data, di, ji, marker>>
    /\ UNCHANGED <<settings, shared, wrk, hist>>
    /\ UNCHANGED <<log, unit>>

\* while self.queue.full(): sleep
AtqWait ==
    /\ pc = "atq_wait"
    /\ ~full(queue)
    /\ pc' = "atq_reacquire"
    /\ UNCHANGED <<ret, atq_ret, code, status, containers, containers_false,
                   ci, files, data, di, ji, marker>>
    /\ UNCHANGED <<settings, shared, wrk, hist>>
    /\ UNCHANGED <<log, unit>>

\* self.lock.acquire() after the wait
AtqReacquire ==
    /\ pc = "atq_reacquire"
    /\ lock = Free
    /\ lock' = Main
    /\ pc' = "atq_blockput"
    /\ UNCHANGED <<queue, finished, deleted_objects, threads>>
    /\ UNCHANGED <<ret, atq_ret, code, status, containers, containers_false,
                   ci, files, data, di, ji, marker>>
    /\ UNCHANGED <<settings, wrk, hist>>
    /\ UNCHANGED <<log, unit>>

\* a blocking put that forgets self.deleted_objects += 1
AtqBlockingPutUncounted ==
    /\ pc = "atq_blockput"
    /\ Len(queue) < queue_size
    /\ queue' = Append(queue, data[di])
    /\ puts' = Append(puts, data[di])
    /\ di' = di + 1
    /\ pc' = "atq_put"
    /\ UNCHANGED <<lock, finished, deleted_objects, threads>>
    /\ UNCHANGED <<ret, atq_ret, code, status, containers, containers_false,
                   ci, files, data, ji, marker>>
    /\ UNCHANGED <<settings, wrk, hist>>
    /\ UNCHANGED <<returned, attempts, unit>>

\* self.queue.put(item): blocks while the queue is full
AtqBlockingPut ==
    /\ pc = "atq_blockput"
    /\ ~full(queue)
    /\ queue' = Append(queue, data[di])
    /\ puts' = Append(puts, data[di])
    /\ deleted_objects' = deleted_objects + 1
    /\ di' = di + 1
    /\ pc' = "atq_put"
    /\ UNCHANGED <<lock, finished, threads>>
    /\ UNCHANGED <<ret, atq_ret, code, status, containers, containers_false,
                   ci, files, data, ji, marker>>
    /\ UNCHANGED <<settings, wrk, hist>>
    /\ UNCHANGED <<returned, attempts, unit>>

\* end of the for loop: self.lock.release(), return, data = []
AtqRelease ==
    /\ pc = "atq_put"
    /\ di > Len(data)
    /\ lock' = Free
    /\ data' = <<>>
    /\ di' = 1
    /\ pc' = atq_ret
    /\ UNCHANGED <<queue, finished, deleted_objects, threads>>
    /\ UNCHANGED <<ret, atq_ret, code, status, containers, containers_false,
                   ci, files, ji, marker>>
    /\ UNCHANGED <<settings, wrk, hist>>
    /\ UNCHANGED <<log, unit>>

\* a drain barrier that does not wait
DrainedNoWait == TRUE

\* the drain barrier's exit condition: while not self.queue.empty(): sleep
Drained == empty(queue)

\* the drain barrier, then self.finish()
Barrier ==
    /\ pc = "barrier"
    /\ Drained
    /\ CallFinish("delete_containers")
    /\ ci' = 1
    /\ UNCHANGED <<atq_ret, code, status, containers, containers_false, files,
                   data, di, ji, marker>>
    /\ UNCHANGED <<settings, shared, wrk, hist>>
    /\ UNCHANGED <<log, unit>>

\* a finish() that sets the flag and joins the threads on every call
FinishAlways ==
    /\ pc = "finish"
    /\ finished' = TRUE /\ pc' = "join" /\ ji' = 1 /\ ret' = ret
    /\ UNCHANGED <<queue, lock, deleted_objects, threads>>
    /\ UNCHANGED <<atq_ret, code, status, containers, containers_false, ci,
                   files, data, di, marker>>
    /\ UNCHANGED <<settings, wrk, hist>>
    /\ UNCHANGED <<log, unit>>

\* finish(): if not self.finished: self.finished = True, then the joins;
\* otherwise it returns at once
Finish ==
    /\ pc = "finish"
    /\ IF ~finished
          THEN finished' = TRUE /\ pc' = "join" /\ ji' = 1 /\ ret' = ret
          ELSE finished' = finished /\ pc' = ret /\ ji' = ji /\ ret' = "none"
    /\ returned' = (returned \/ finished)
    /\ UNCHANGED <<queue, lock, deleted_objects, threads>>
    /\ UNCHANGED <<atq_ret, code, status, containers, containers_false, ci,
                   files, data, di, marker>>
    /\ UNCHANGED <<settings, wrk, hist>>
    /\ UNCHANGED <<puts, attempts, unit>>

\* for thread in self.threads: thread.join() returns once the thread has ended
Join ==
    /\ pc = "join"
    /\ ji <= Len(threads)
    /\ Ended(threads[ji])
    /\ ji' = ji + 1
    /\ UNCHANGED <<pc, ret, atq_ret, code, status, containers,
                   containers_false, ci, files, data, di, marker>>
    /\ UNCHANGED <<settings, shared, wrk, hist>>
    /\ UNCHANGED <<log, unit>>

\* every thread joined: finish() returns
Joined ==
    /\ pc = "join"
    /\ ji > Len(threads)
    /\ pc' = ret
    /\ ret' = "none"
    /\ returned' = TRUE
    /\ UNCHANGED <<atq_ret, code, status, containers, containers_false, ci,
                   files, data, di, ji, marker>>
    /\ UNCHANGED <<settings, shared, wrk, hist>>
    /\ UNCHANGED <<puts, attempts, unit>>

\* Store.delete_container(container, retry=2)
Retries == 2

\* object_store.delete_container(container) returned: True after the n-th
\* attempt succeeded, or False after every attempt of the Store failed; the
\* result is not looked at
DeleteContainer ==
    /\ pc = "delete_containers"
    /\ ci <= Len(containers)
    /\ dcalls' = dcalls \cup {containers[ci]}
    /\ \E n \in 1..(Retries + 1), ok \in BOOLEAN :
          /\ ok \/ n = Retries + 1
          /\ attempts' = n
          /\ errors' = IF ok THEN errors ELSE errors \cup {"delete_container"}
    /\ ci' = ci + 1
    /\ UNCHANGED <<pc, ret, atq_ret, code, status, containers,
                   containers_false, files, data, di, ji, marker>>
    /\ UNCHANGED <<settings, shared, wrk>>
    /\ UNCHANGED <<signalled, dequeued, raised, inits, cleanups>>
    /\ UNCHANGED <<late, atRaise>>
    /\ UNCHANGED <<returned, puts, unit>>

\* object_store.delete_container(container) raised (the legacy class, after
\* its single attempt): finish() and re-raise
DeleteContainerRaise ==
    /\ pc = "delete_containers"
    /\ ci <= Len(containers)
    /\ dcalls' = dcalls \cup {containers[ci]}
    /\ errors' = errors \cup {"delete_container"}
    /\ CallFinish("__exit__")
    /\ code' = 1
    /\ UNCHANGED <<atq_ret, status, containers, containers_false, ci, files,
                   data, di, ji, marker>>
    /\ UNCHANGED <<settings, shared, wrk>>
    /\ UNCHANGED <<signalled, dequeued, raised, inits, cleanups>>
    /\ UNCHANGED <<late, atRaise>>
    /\ attempts' = 1
    /\ UNCHANGED <<returned, puts, unit>>

\* delete() returns: the with block is left
DeleteDone ==
    /\ pc = "delete_containers"
    /\ ci > Len(containers)
    /\ pc' = "__exit__"
    /\ UNCHANGED <<ret, atq_ret, code, status, containers, containers_false,
                   ci, files, data, di, ji, marker>>
    /\ UNCHANGED <<settings, shared, wrk, hist>>
    /\ UNCHANGED <<log, unit>>

\* __exit__: self.finish()
Exit ==
    /\ pc = "__exit__"
    /\ CallFinish("end")
    /\ UNCHANGED <<atq_ret, code, status, containers, containers_false, ci,
                   files, data, di, ji, marker>>
    /\ UNCHANGED <<settings, shared, wrk, hist>>
    /\ UNCHANGED <<log, unit>>

\* main returns 0 (sys.exit), or the exception or SystemExit ends the process
End ==
    /\ pc = "end"
    /\ pc' = "done"
    /\ status' = IF code = 0 THEN "0" ELSE "1"
    /\ UNCHANGED <<ret, atq_ret, code, containers, containers_false, ci,
                   files, data, di, ji, marker>>
    /\ UNCHANGED <<settings, shared, wrk, hist>>
    /\ UNCHANGED <<log, unit>>

\* signal_handler: SIGINT, SIGTERM or SIGHUP interrupts the controller thread
\* wherever it is (whatever it holds) and calls self.finish()
Signal ==
    /\ pc \notin {"done", "killed"}
    /\ ~signalled
    /\ signalled' = TRUE
    /\ CallFinish("kill")
    /\ UNCHANGED <<atq_ret, code, status, containers, containers_false, ci,
                   files, data, di, ji, marker>>
    /\ UNCHANGED <<settings, shared, wrk>>
    /\ UNCHANGED <<dequeued, raised, errors, dcalls, inits, cleanups>>
    /\ UNCHANGED <<late, atRaise>>
    /\ UNCHANGED <<log, unit>>

\* signal_handler: the default handler is restored and the signal re-sent
Kill ==
    /\ pc = "kill"
    /\ pc' = "killed"
    /\ status' = "signal"
    /\ UNCHANGED <<ret, atq_ret, code, containers, containers_false, ci,
                   files, data, di, ji, marker>>
    /\ UNCHANGED <<settings, shared, wrk, hist>>
    /\ UNCHANGED <<log, unit>>

\* ---------------------------------------------------------------------
\* The Cloud Files store: the per-thread bulk buffer
\* ---------------------------------------------------------------------
\* delete_object with bulk_size > 1: append to the group of the container
Buffered(l, t) ==
    [data |-> [l.data EXCEPT ![t[1]] = Append(@, t[2])], size |-> l.size + 1]

\* a flush that empties the groups and keeps the count
FlushedKeepsSize(l) == [data |-> EmptyLocal.data, size |-> l.size]

\* delete_objects_bulk after its bulk_delete calls: local.size = 0, local.data = dict()
Flushed(l) == EmptyLocal

\* delete_object makes a backend request: the single delete, or the flush
\* of a buffer that reached bulk_size
Requests(l, t) == bulk_size <= 1 \/ Buffered(l, t).size >= bulk_size

\* ---------------------------------------------------------------------
\* The worker threads: ThreadedDeleter.delete_object(thread_id)
\* ---------------------------------------------------------------------
Running == pc # "killed"

\* object_store.init_thread(local)
InitThread(w) ==
    /\ Running
    /\ wpc[w] = "init"
    /\ wpc' = [wpc EXCEPT ![w] = "loop"]
    /\ local' = [local EXCEPT ![w] = EmptyLocal]
    /\ inits' = [inits EXCEPT ![w] = @ + 1]
    /\ UNCHANGED task
    /\ UNCHANGED <<settings, shared, ctl>>
    /\ UNCHANGED <<signalled, dequeued, raised, errors, dcalls, cleanups>>
    /\ UNCHANGED <<late, atRaise>>
    /\ UNCHANGED <<log, unit>>

\* a loop that goes on without testing self.finished
WorkerLoopNoTest(w) ==
    /\ Running
    /\ wpc[w] = "loop"
    /\ wpc' = [wpc EXCEPT ![w] = "acquire"]
    /\ UNCHANGED <<task, local>>
    /\ UNCHANGED <<settings, shared, ctl, hist>>
    /\ UNCHANGED <<log, unit>>

\* while not self.finished
WorkerLoop(w) ==
    /\ Running
    /\ wpc[w] = "loop"
    /\ wpc' = [wpc EXCEPT ![w] = IF finished THEN "cleanup" ELSE "acquire"]
    /\ UNCHANGED <<task, local>>
    /\ UNCHANGED <<settings, shared, ctl, hist>>
    /\ UNCHANGED <<log, unit>>

\* self.lock.acquire()
WorkerAcquire(w) ==
    /\ Running
    /\ wpc[w] = "acquire"
    /\ lock = Free
    /\ lock' = w
    /\ wpc' = [wpc EXCEPT ![w] = "locked"]
    /\ UNCHANGED <<queue, finished, deleted_objects, threads>>
    /\ UNCHANGED <<task, local>>
    /\ UNCHANGED <<settings, ctl, hist>>
    /\ UNCHANGED <<log, unit>>

\* if not self.queue.empty(): self.queue.get(), self.lock.release()
WorkerGet(w) ==
    /\ Running
    /\ wpc[w] = "locked"
    /\ ~empty(queue)
    /\ task' = [task EXCEPT ![w] = Head(queue)]
    /\ queue' = Tail(queue)
    /\ lock' = Free
    /\ dequeued' = dequeued + 1
    /\ late' = [late EXCEPT ![w] = IF finished THEN @ + 1 ELSE @]
    /\ wpc' = [wpc EXCEPT ![w] = "delete"]
    /\ UNCHANGED atRaise
    /\ UNCHANGED <<finished, deleted_objects, threads>>
    /\ UNCHANGED local
    /\ UNCHANGED <<settings, ctl>>
    /\ UNCHANGED <<signalled, raised, errors, dcalls, inits, cleanups>>
    /\ UNCHANGED <<log, unit>>

\* an else branch that sleeps without releasing the lock
WorkerEmptyKeepsLock(w) ==
    /\ Running
    /\ wpc[w] = "locked"
    /\ empty(queue)
    /\ wpc' = [wpc EXCEPT ![w] = "loop"]
    /\ UNCHANGED <<task, local>>
    /\ UNCHANGED <<settings, shared, ctl, hist>>
    /\ UNCHANGED <<log, unit>>

\* else: self.lock.release(), time.sleep(1); the sleep holds nothing and
\* ends at the next loop test
WorkerEmpty(w) ==
    /\ Running
    /\ wpc[w] = "locked"
    /\ empty(queue)
    /\ lock' = Free
    /\ wpc' = [wpc EXCEPT ![w] = "loop"]
    /\ UNCHANGED <<queue, finished, deleted_objects, threads>>
    /\ UNCHANGED <<task, local>>
    /\ UNCHANGED <<settings, ctl, hist>>
    /\ UNCHANGED <<log, unit>>

\* object_store.delete_object(container, object, local) returned: the object
\* is deleted, or buffered, or the buffer holding it is flushed
DeleteObject(w) ==
    /\ Running
    /\ wpc[w] = "delete"
    /\ local' = [local EXCEPT ![w] =
                    IF bulk_size <= 1 THEN @
                    ELSE IF Buffered(@, task[w]).size >= bulk_size
                            THEN Flushed(Buffered(@, task[w]))
                            ELSE Buffered(@, task[w])]
    /\ task' = [task EXCEPT ![w] = NoTask]
    /\ wpc' = [wpc EXCEPT ![w] = "loop"]
    /\ UNCHANGED <<settings, shared, ctl, hist>>
    /\ UNCHANGED <<log, unit>>

\* Store.delete_object of stores/s3.py: the backend request failed and the
\* except clause of the store caught the exception; the S3 store does not
\* buffer
DeleteObjectCaught(w) ==
    /\ Running
    /\ wpc[w] = "delete"
    /\ bulk_size <= 1
    /\ task' = [task EXCEPT ![w] = NoTask]
    /\ wpc' = [wpc EXCEPT ![w] = "caught"]
    /\ UNCHANGED local
    /\ UNCHANGED <<settings, shared, ctl, hist>>
    /\ UNCHANGED <<log, unit>>

\* the except clause of the S3 store printed the failure: delete_object
\* returns and the worker goes on with its loop
DeleteObjectSkipped(w) ==
    /\ Running
    /\ wpc[w] = "caught"
    /\ wpc' = [wpc EXCEPT ![w] = "loop"]
    /\ UNCHANGED <<task, local>>
    /\ UNCHANGED <<settings, shared, ctl, hist>>
    /\ UNCHANGED <<log, unit>>

\* object_store.delete_object raised in its backend request: the buffer
\* keeps what it held
DeleteObjectRaise(w) ==
    /\ Running
    /\ wpc[w] = "delete"
    /\ Requests(local[w], task[w])
    /\ local' = [local EXCEPT ![w] =
                    IF bulk_size <= 1 THEN @ ELSE Buffered(@, task[w])]
    /\ raised' = TRUE
    /\ atRaise' = IF raised THEN atRaise ELSE deleted_objects
    /\ UNCHANGED late
    /\ errors' = errors \cup {"delete_object"}
    /\ wpc' = [wpc EXCEPT ![w] = "except"]
    /\ UNCHANGED task
    /\ UNCHANGED <<settings, shared, ctl>>
    /\ UNCHANGED <<signalled, dequeued, dcalls, inits, cleanups>>
    /\ UNCHANGED <<log, unit>>

\* an except clause that re-raises without setting self.finished
WorkerExceptNoFlag(w) ==
    /\ pc # "killed"
    /\ wpc[w] = "except"
    /\ wpc' = [wpc EXCEPT ![w] = "dead"]
    /\ task' = [task EXCEPT ![w] = NoTask]
    /\ UNCHANGED <<queue, lock, finished, deleted_objects, threads>>
    /\ UNCHANGED local
    /\ UNCHANGED <<settings, ctl, hist>>
    /\ UNCHANGED <<log, unit>>

\* except Exception: self.finished = True; raise (the thread ends)
WorkerExcept(w) ==
    /\ Running
    /\ wpc[w] = "except"
    /\ finished' = TRUE
    /\ wpc' = [wpc EXCEPT ![w] = "dead"]
    /\ task' = [task EXCEPT ![w] = NoTask]
    /\ UNCHANGED <<queue, lock, deleted_objects, threads>>
    /\ UNCHANGED local
    /\ UNCHANGED <<settings, ctl, hist>>
    /\ UNCHANGED <<log, unit>>

\* object_store.cleanup_thread(local): the last flush; the thread ends
CleanupThread(w) ==
    /\ Running
    /\ wpc[w] = "cleanup"
    /\ local' = [local EXCEPT ![w] = Flushed(@)]
    /\ cleanups' = [cleanups EXCEPT ![w] = @ + 1]
    /\ wpc' = [wpc EXCEPT ![w] = "stopped"]
    /\ UNCHANGED task
    /\ UNCHANGED <<settings, shared, ctl>>
    /\ UNCHANGED <<signalled, dequeued, raised, errors, dcalls, inits>>
    /\ UNCHANGED <<late, atRaise>>
    /\ UNCHANGED <<log, unit>>

\* object_store.cleanup_thread(local) raised in its flush: the thread ends
\* with the buffer as it was
CleanupThreadRaise(w) ==
    /\ Running
    /\ wpc[w] = "cleanup"
    /\ local[w].size > 0
    /\ cleanups' = [cleanups EXCEPT ![w] = @ + 1]
    /\ errors' = errors \cup {"delete_object"}
    /\ wpc' = [wpc EXCEPT ![w] = "dead"]
    /\ UNCHANGED <<task, local>>
    /\ UNCHANGED <<settings, shared, ctl>>
    /\ UNCHANGED <<signalled, dequeued, raised, dcalls, inits>>
    /\ UNCHANGED <<late, atRaise>>
    /\ UNCHANGED <<log, unit>>

Controller ==
    \/ LoginOk \/ LoginFail
    \/ ListContainersOk \/ ListContainersRaise \/ ListContainersFalse
    \/ StartThread \/ ThreadsStarted
    \/ ForContainer \/ WhileNotFinished
    \/ ListObjectsOk \/ ListObjectsRaise
    \/ ForFile \/ Throttle
    \/ AtqAcquire \/ AtqPut \/ AtqFull \/ AtqWait \/ AtqReacquire
    \/ AtqBlockingPut \/ AtqRelease
    \/ Barrier \/ Finish \/ Join \/ Joined
    \/ DeleteContainer \/ DeleteContainerRaise \/ DeleteDone
    \/ Exit \/ End \/ Kill

Worker(w) ==
    \/ InitThread(w) \/ WorkerLoop(w) \/ WorkerAcquire(w)
    \/ WorkerGet(w) \/ WorkerEmpty(w)
    \/ DeleteObject(w) \/ DeleteObjectCaught(w) \/ DeleteObjectSkipped(w)
    \/ DeleteObjectRaise(w) \/ WorkerExcept(w)
    \/ CleanupThread(w) \/ CleanupThreadRaise(w)

Next == Controller \/ Signal \/ \E w \in Workers : Worker(w)

Spec == Init /\ [][Next]_vars

\* the threads are scheduled fairly: the controller and every worker thread
\* keep running while they can take a step; a signal may or may not come
Fairness == WF_vars(Controller) /\ \A w \in Workers : WF_vars(Worker(w))

FairSpec == Spec /\ Fairness

\* fair scheduling of the threads and of the lock: a thread that can go on
\* again and again, as one blocked in self.lock.acquire() while the lock is
\* released again and again, does go on
Scheduling == SF_vars(Controller) /\ \A w \in Workers : SF_vars(Worker(w))

LiveSpec == Spec /\ Scheduling

\* ---------------------------------------------------------------------
\* list_objects of the legacy CloudFiles class and of the Cloud Files Store
\* under the enumeration loop of ThreadedDeleter.delete, for one container
\* ---------------------------------------------------------------------
MaxResponses == 5
Keys == 1..3

\* the deleter with the smallest settings, not running
Unused == Deleter /\ max_threads = 1 /\ queue_size = 1 /\ bulk_size = 1

engine == <<settings, shared, ctl, wrk, hist, log>>

RECURSIVE FirstKeys(_, _)
\* the n smallest keys of S in listing order
FirstKeys(S, n) ==
    IF S = {} \/ n = 0 THEN <<>>
    ELSE LET k == CHOOSE x \in S : \A y \in S : x <= y
         IN <<k>> \o FirstKeys(S \ {k}, n - 1)

\* GET /container?marker=m: the first page of the keys after the marker
PageAfter(objs, m) == FirstKeys({k \in objs : k > m}, PageSize)

RECURSIVE Concat(_)
Concat(pages) ==
    IF pages = <<>> THEN <<>> ELSE Head(pages) \o Concat(Tail(pages))

PageInit ==
    /\ Unused
    /\ upc = "list"
    /\ store \in {"legacy", "cloudfiles"}
    /\ store_objects \in SUBSET Keys
    /\ cf_marker = 0
    /\ responses = <<>>
    /\ produced = <<>>
    /\ BulkIdle
    /\ ListIdle
    /\ PollIdle

\* list_objects(container) of either class: the response holds keys; the
\* marker moves to the last one and delete() enqueues every key of the page
ListPage ==
    /\ upc \in {"list", "recheck"}
    /\ Len(responses) < MaxResponses
    /\ PageAfter(store_objects, cf_marker) # <<>>
    /\ responses' = Append(responses, PageAfter(store_objects, cf_marker))
    /\ cf_marker' = PageAfter(store_objects, cf_marker)[Len(PageAfter(store_objects, cf_marker))]
    /\ produced' = produced \o PageAfter(store_objects, cf_marker)
    /\ upc' = "list"
    /\ UNCHANGED <<store, store_objects>>
    /\ UNCHANGED <<engine, bulkVars, listVars, pollVars>>

\* a list_objects that returns its first empty response to the caller
LegacyListEmptyNoRecheck ==
    /\ upc = "list"
    /\ store = "legacy"
    /\ Len(responses) < MaxResponses
    /\ PageAfter(store_objects, cf_marker) = <<>>
    /\ responses' = Append(responses, <<>>)
    /\ upc' = "ended"
    /\ UNCHANGED <<store, store_objects, cf_marker, produced>>
    /\ UNCHANGED <<engine, bulkVars, listVars, pollVars>>

\* list_objects(container): the response is empty and this is no recheck:
\* del self.marker[container], then self.list_objects(container, True)
LegacyListEmpty ==
    /\ upc = "list"
    /\ store = "legacy"
    /\ Len(responses) < MaxResponses
    /\ PageAfter(store_objects, cf_marker) = <<>>
    /\ responses' = Append(responses, <<>>)
    /\ cf_marker' = 0
    /\ upc' = "recheck"
    /\ UNCHANGED <<store, store_objects, produced>>
    /\ UNCHANGED <<engine, bulkVars, listVars, pollVars>>

\* list_objects(container, True): the response is empty again and is
\* returned; delete() finds len(files) == 0 and leaves the loop
LegacyRecheckEmpty ==
    /\ upc = "recheck"
    /\ Len(responses) < MaxResponses
    /\ PageAfter(store_objects, cf_marker) = <<>>
    /\ responses' = Append(responses, <<>>)
    /\ upc' = "ended"
    /\ UNCHANGED <<store, store_objects, cf_marker, produced>>
    /\ UNCHANGED <<engine, bulkVars, listVars, pollVars>>

\* Store.list_objects(container): len(objects_) == 0, the empty list is
\* returned; delete() finds len(files) == 0 and leaves the loop
StoreListEmpty ==
    /\ upc = "list"
    /\ store = "cloudfiles"
    /\ Len(responses) < MaxResponses
    /\ PageAfter(store_objects, cf_marker) = <<>>
    /\ responses' = Append(responses, <<>>)
    /\ upc' = "ended"
    /\ UNCHANGED <<store, store_objects, cf_marker, produced>>
    /\ UNCHANGED <<engine, bulkVars, listVars, pollVars>>

\* a worker's delete of an enqueued key takes effect in the backend
BackendDelete ==
    /\ upc \in {"list", "recheck"}
    /\ \E i \in 1..Len(produced) :
          /\ produced[i] \in store_objects
          /\ store_objects' = store_objects \ {produced[i]}
    /\ UNCHANGED <<upc, store, cf_marker, responses, produced>>
    /\ UNCHANGED <<engine, bulkVars, listVars, pollVars>>

PageNext ==
    \/ ListPage \/ LegacyListEmpty \/ LegacyRecheckEmpty \/ StoreListEmpty
    \/ BackendDelete

PageSpec == PageInit /\ [][PageNext]_vars

\* ---------------------------------------------------------------------
\* delete_object with bulk_size > 1, for one worker that receives delete
\* requests for the keys 1..requests of container 1 and then stops
\* ---------------------------------------------------------------------
MaxBatch == 3
MaxRequests == 7

\* delete_objects_bulk: one bulk_delete call per container group held
BulkCalls(l) == SelectSeq(l.data, LAMBDA keys : keys # <<>>)

BulkInit ==
    /\ Deleter
    /\ max_threads = 2
    /\ queue_size = 1
    /\ bulk_size \in 2..MaxBatch
    /\ upc = "requests"
    /\ store \in {"legacy", "cloudfiles"}
    /\ PageIdle
    /\ requests \in 0..MaxRequests
    /\ requested = 0
    /\ force_delete = FALSE
    /\ forced = FALSE
    /\ bulk_calls = <<>>
    /\ ListIdle
    /\ PollIdle

bulkRest == <<settings, shared, ctl, wpc, task, hist, log, store, pageVars,
              listVars, pollVars>>

\* delete_object: the key is appended and the buffer is below bulk_size
BulkBuffer ==
    /\ upc = "requests"
    /\ requested < requests
    /\ ~Requests(local[1], <<1, requested + 1>>)
    /\ ~(store = "legacy" /\ force_delete)
    /\ local' = [local EXCEPT ![1] = Buffered(@, <<1, requested + 1>>)]
    /\ requested' = requested + 1
    /\ UNCHANGED <<upc, requests, force_delete, forced, bulk_calls>>
    /\ UNCHANGED bulkRest

\* delete_object: the key is appended and the buffer is flushed, because it
\* reached bulk_size or, in the legacy class, because force_delete is set
BulkFlush ==
    /\ upc = "requests"
    /\ requested < requests
    /\ Requests(local[1], <<1, requested + 1>>) \/ (store = "legacy" /\ force_delete)
    /\ bulk_calls' = bulk_calls \o BulkCalls(Buffered(local[1], <<1, requested + 1>>))
    /\ local' = [local EXCEPT ![1] = Flushed(Buffered(@, <<1, requested + 1>>))]
    /\ force_delete' = FALSE
    /\ requested' = requested + 1
    /\ UNCHANGED <<upc, requests, forced>>
    /\ UNCHANGED bulkRest

\* CloudFiles.list_objects, called by the controller: self.force_delete = True
BulkForce ==
    /\ upc = "requests"
    /\ store = "legacy"
    /\ ~force_delete
    /\ force_delete' = TRUE
    /\ forced' = TRUE
    /\ UNCHANGED <<upc, requests, requested, bulk_calls>>
    /\ UNCHANGED <<bulkRest, local>>

\* a cleanup that releases the connection without the last flush
BulkStopNoFlush ==
    /\ upc = "requests"
    /\ requested = requests
    /\ upc' = "stopped"
    /\ UNCHANGED <<requests, requested, force_delete, forced, bulk_calls>>
    /\ UNCHANGED <<bulkRest, local>>

\* the worker stops: cleanup_thread (cleanup_local) flushes what is left
BulkStop ==
    /\ upc = "requests"
    /\ requested = requests
    /\ bulk_calls' = bulk_calls \o BulkCalls(local[1])
    /\ local' = [local EXCEPT ![1] = Flushed(@)]
    /\ upc' = "stopped"
    /\ UNCHANGED <<requests, requested, force_delete, forced>>
    /\ UNCHANGED bulkRest

BulkNext == BulkBuffer \/ BulkFlush \/ BulkForce \/ BulkStop

BulkSpec == BulkInit /\ [][BulkNext]_vars

\* ---------------------------------------------------------------------
\* Store.delete_object of stores/cloudfiles.py with bulk_size > 1, for one
\* worker that receives delete requests for keys of any container and then
\* stops
\* ---------------------------------------------------------------------

\* delete_objects_bulk: self.rax.bulk_delete(container, objects) for every
\* container group of local.data (a group exists once a key was appended)
GroupCalls(l) ==
    SelectSeq([c \in Containers |-> <<c, l.data[c]>>],
              LAMBDA group : group[2] # <<>>)

GroupInit ==
    /\ Deleter
    /\ max_threads = 2
    /\ queue_size = 1
    /\ bulk_size \in 2..MaxBatch
    /\ upc = "groups"
    /\ store = "cloudfiles"
    /\ PageIdle
    /\ requests \in 0..MaxRequests
    /\ requested = 0
    /\ force_delete = FALSE
    /\ forced = FALSE
    /\ bulk_calls = <<>>
    /\ ListIdle
    /\ PollIdle

\* delete_object: the key is appended to the group of its container,
\* local.size += 1, and local.size is below bulk_size
GroupBuffer ==
    /\ upc = "groups"
    /\ requested < requests
    /\ \E c \in Containers :
          /\ Buffered(local[1], <<c, requested + 1>>).size < bulk_size
          /\ local' = [local EXCEPT ![1] = Buffered(@, <<c, requested + 1>>)]
    /\ requested' = requested + 1
    /\ UNCHANGED <<upc, requests, force_delete, forced, bulk_calls>>
    /\ UNCHANGED bulkRest

\* delete_object: the key is appended, local.size reached bulk_size and
\* delete_objects_bulk flushes the buffer
GroupFlush ==
    /\ upc = "groups"
    /\ requested < requests
    /\ \E c \in Containers :
          /\ Buffered(local[1], <<c, requested + 1>>).size >= bulk_size
          /\ bulk_calls' = bulk_calls
                             \o GroupCalls(Buffered(local[1], <<c, requested + 1>>))
          /\ local' = [local EXCEPT
                          ![1] = Flushed(Buffered(@, <<c, requested + 1>>))]
    /\ requested' = requested + 1
    /\ UNCHANGED <<upc, requests, force_delete, forced>>
    /\ UNCHANGED bulkRest

\* the worker stops: cleanup_thread flushes what is left
GroupStop ==
    /\ upc = "groups"
    /\ requested = requests
    /\ bulk_calls' = bulk_calls \o (IF local[1].size > 0
                                       THEN GroupCalls(local[1]) ELSE <<>>)
    /\ local' = [local EXCEPT ![1] = Flushed(@)]
    /\ upc' = "stopped"
    /\ UNCHANGED <<requests, requested, force_delete, forced>>
    /\ UNCHANGED bulkRest

GroupNext == GroupBuffer \/ GroupFlush \/ GroupStop

GroupSpec == GroupInit /\ [][GroupNext]_vars

\* ---------------------------------------------------------------------
\* list_containers(prefixes) of the three store classes
\* ---------------------------------------------------------------------
MaxPrefixes == 2
MaxListing == 3

\* container names and prefixes, as strings of characters
Names == {<<"l">>, <<"l", "a">>, <<"t">>, <<"d">>}
Prefixes == {<<"l">>, <<"l", "a">>, <<"t">>, <<"x">>}

\* the lists of at most n different elements of S
Lists(S, n) ==
    {l \in UNION {[1..k -> S] : k \in 0..n} :
        \A i, j \in 1..Len(l) : i # j => l[i] # l[j]}

\* container.startswith(prefix)
StartsWith(name, prefix) ==
    /\ Len(prefix) <= Len(name)
    /\ SubSeq(name, 1, Len(prefix)) = prefix

RECURSIVE MatchesOf(_, _)
\* for prefix in prefixes: if container.startswith(prefix): append(container)
MatchesOf(container, ps) ==
    IF ps = <<>> THEN <<>>
    ELSE (IF StartsWith(container, Head(ps)) THEN <<container>> ELSE <<>>)
            \o MatchesOf(container, Tail(ps))

RECURSIVE LegacyListContainers(_, _)
\* CloudFiles.list_containers: for container in response, for prefix in prefixes
LegacyListContainers(listing, ps) ==
    IF listing = <<>> THEN <<>>
    ELSE MatchesOf(Head(listing), ps) \o LegacyListContainers(Tail(listing), ps)

\* rax.list(prefix=prefix), aws.buckets.filter(Prefix=prefix): the provider's
\* listing restricted to a prefix; the prefix None (here <<>>) restricts nothing
ProviderList(listing, prefix) ==
    SelectSeq(listing, LAMBDA name : StartsWith(name, prefix))

RECURSIVE StoreListPrefixes(_, _)
\* for prefix in prefixes: for container in the provider's list: append
StoreListPrefixes(listing, ps) ==
    IF ps = <<>> THEN <<>>
    ELSE ProviderList(listing, Head(ps)) \o StoreListPrefixes(listing, Tail(ps))

\* Store.list_containers: if len(prefixes) == 0: prefixes = [None]
StoreListContainers(listing, ps) ==
    StoreListPrefixes(listing, IF Len(ps) = 0 THEN <<<<>>>> ELSE ps)

ListInit ==
    /\ Unused
    /\ upc = "list_containers"
    /\ store \in {"legacy", "cloudfiles", "s3"}
    /\ prefixes \in Lists(Prefixes, MaxPrefixes)
    /\ provider_listing \in Lists(Names, MaxListing)
    /\ listed = <<>>
    /\ PageIdle
    /\ BulkIdle
    /\ PollIdle

\* CloudFiles.list_containers(prefixes) returns
LegacyList ==
    /\ upc = "list_containers"
    /\ store = "legacy"
    /\ listed' = LegacyListContainers(provider_listing, prefixes)
    /\ upc' = "listed"
    /\ UNCHANGED <<store, prefixes, provider_listing>>
    /\ UNCHANGED <<engine, pageVars, bulkVars, pollVars>>

\* Store.list_containers(prefixes) of stores/cloudfiles.py or stores/s3.py returns
StoreList ==
    /\ upc = "list_containers"
    /\ store \in {"cloudfiles", "s3"}
    /\ listed' = StoreListContainers(provider_listing, prefixes)
    /\ upc' = "listed"
    /\ UNCHANGED <<store, prefixes, provider_listing>>
    /\ UNCHANGED <<engine, pageVars, bulkVars, pollVars>>

ListNext == LegacyList \/ StoreList

ListSpec == ListInit /\ [][ListNext]_vars

\* ---------------------------------------------------------------------
\* the loop of ThreadedDeleter.delete_object statement by statement, for
\* workers that poll the queue while add_to_queue puts one batch of tasks
\* on it; the tasks are told apart by their keys
\* ---------------------------------------------------------------------
MaxPuts == 3

pollRest == <<settings, ctl, local, hist, log, upc, store, pageVars, bulkVars,
              listVars>>

PollInit ==
    /\ Deleter
    /\ max_threads = MaxThreads
    /\ queue_size \in 1..MaxQueueSize
    /\ bulk_size = 1
    /\ upc = "poll"
    /\ store = "none"
    /\ PageIdle
    /\ BulkIdle
    /\ ListIdle
    /\ PollIdle

\* delete(): the threads are started and have run init_thread, and a batch
\* of tasks is handed to add_to_queue
PollStart ==
    /\ upc = "poll"
    /\ upc' = "polling"
    /\ threads' = [i \in Workers |-> i]
    /\ wpc' = [w \in Workers |-> "loop"]
    /\ data' = [i \in 1..MaxPuts |-> <<1, i>>]
    /\ pc' = "atq_acquire"
    /\ atq_ret' = "barrier"
    /\ UNCHANGED <<queue, lock, finished, deleted_objects>>
    /\ UNCHANGED <<ret, code, status, containers, containers_false, ci, files,
                   di, ji, marker>>
    /\ UNCHANGED <<task, local>>
    /\ UNCHANGED <<settings, hist, log>>
    /\ UNCHANGED <<store, pageVars, bulkVars, listVars, pollVars>>

\* the drain barrier is passed and finish() sets self.finished
PollFinish ==
    /\ upc = "polling"
    /\ pc = "barrier"
    /\ Drained
    /\ finished' = TRUE
    /\ pc' = "join"
    /\ UNCHANGED <<queue, lock, deleted_objects, threads>>
    /\ UNCHANGED <<ret, atq_ret, code, status, containers, containers_false,
                   ci, files, data, di, ji, marker>>
    /\ UNCHANGED <<settings, wrk, hist, log, unit>>

\* while not self.finished
PollLoop(w) ==
    /\ wpc[w] = "loop"
    /\ wpc' = [wpc EXCEPT ![w] = IF finished THEN "stopped" ELSE "acquire"]
    /\ UNCHANGED <<shared, task, pollVars>>
    /\ UNCHANGED pollRest

\* an acquire that goes on without the lock
PollAcquireNoLock(w) ==
    /\ wpc[w] = "acquire"
    /\ wpc' = [wpc EXCEPT ![w] = "locked"]
    /\ UNCHANGED <<shared, task, pollVars>>
    /\ UNCHANGED pollRest

\* self.lock.acquire()
PollAcquire(w) ==
    /\ wpc[w] = "acquire"
    /\ lock = Free
    /\ lock' = w
    /\ wpc' = [wpc EXCEPT ![w] = "locked"]
    /\ UNCHANGED <<queue, finished, deleted_objects, threads>>
    /\ UNCHANGED <<task, pollVars>>
    /\ UNCHANGED pollRest

\* if not self.queue.empty()
PollTest(w) ==
    /\ wpc[w] = "locked"
    /\ wpc' = [wpc EXCEPT ![w] = IF empty(queue) THEN "else" ELSE "get"]
    /\ UNCHANGED <<shared, task, pollVars>>
    /\ UNCHANGED pollRest

\* a get that returns the first task and leaves it on the queue
PollGetKeeps(w) ==
    /\ wpc[w] = "get"
    /\ ~empty(queue)
    /\ task' = [task EXCEPT ![w] = Head(queue)]
    /\ gets' = Append(gets, <<w, Head(queue)>>)
    /\ wpc' = [wpc EXCEPT ![w] = "release"]
    /\ UNCHANGED <<shared, deletes>>
    /\ UNCHANGED pollRest

\* container, object = self.queue.get(): a blocking get, it waits while
\* the queue is empty
PollGet(w) ==
    /\ wpc[w] = "get"
    /\ ~empty(queue)
    /\ task' = [task EXCEPT ![w] = Head(queue)]
    /\ queue' = Tail(queue)
    /\ gets' = Append(gets, <<w, Head(queue)>>)
    /\ wpc' = [wpc EXCEPT ![w] = "release"]
    /\ UNCHANGED <<lock, finished, deleted_objects, threads>>
    /\ UNCHANGED deletes
    /\ UNCHANGED pollRest

\* self.lock.release() after the get
PollRelease(w) ==
    /\ wpc[w] = "release"
    /\ lock' = Free
    /\ wpc' = [wpc EXCEPT ![w] = "delete"]
    /\ UNCHANGED <<queue, finished, deleted_objects, threads>>
    /\ UNCHANGED <<task, pollVars>>
    /\ UNCHANGED pollRest

\* self.object_store.delete_object(container, object, local) returned
PollDelete(w) ==
    /\ wpc[w] = "delete"
    /\ deletes' = Append(deletes, <<w, task[w]>>)
    /\ task' = [task EXCEPT ![w] = NoTask]
    /\ wpc' = [wpc EXCEPT ![w] = "loop"]
    /\ UNCHANGED <<shared, gets>>
    /\ UNCHANGED pollRest

\* delete_object raised: self.finished = True; raise (the thread ends)
PollDeleteRaise(w) ==
    /\ wpc[w] = "delete"
    /\ deletes' = Append(deletes, <<w, task[w]>>)
    /\ finished' = TRUE
    /\ task' = [task EXCEPT ![w] = NoTask]
    /\ wpc' = [wpc EXCEPT ![w] = "dead"]
    /\ UNCHANGED <<queue, lock, deleted_objects, threads>>
    /\ UNCHANGED gets
    /\ UNCHANGED pollRest

\* an else branch that goes to sleep without releasing the lock
PollElseKeepsLock(w) ==
    /\ wpc[w] = "else"
    /\ wpc' = [wpc EXCEPT ![w] = "sleep"]
    /\ UNCHANGED <<shared, task, pollVars>>
    /\ UNCHANGED pollRest

\* else: self.lock.release()
PollElse(w) ==
    /\ wpc[w] = "else"
    /\ lock' = Free
    /\ wpc' = [wpc EXCEPT ![w] = "sleep"]
    /\ UNCHANGED <<queue, finished, deleted_objects, threads>>
    /\ UNCHANGED <<task, pollVars>>
    /\ UNCHANGED pollRest

\* time.sleep(1)
PollSleep(w) ==
    /\ wpc[w] = "sleep"
    /\ wpc' = [wpc EXCEPT ![w] = "loop"]
    /\ UNCHANGED <<shared, task, pollVars>>
    /\ UNCHANGED pollRest

Poller(w) ==
    \/ PollLoop(w) \/ PollAcquire(w) \/ PollTest(w) \/ PollGet(w)
    \/ PollRelease(w) \/ PollDelete(w) \/ PollDeleteRaise(w)
    \/ PollElse(w) \/ PollSleep(w)

PollNext ==
    \/ PollStart
    \/ AtqAcquire \/ AtqPut \/ AtqFull \/ AtqWait \/ AtqReacquire
    \/ AtqBlockingPut \/ AtqRelease
    \/ PollFinish
    \/ \E w \in Workers : Poller(w)

PollSpec == PollInit /\ [][PollNext]_vars

\* ---------------------------------------------------------------------
\* Properties
\* ---------------------------------------------------------------------
Started == {threads[i] : i \in 1..Len(threads)}

Terminated == pc \in {"done", "killed"}

\* C1: delete_container(C) is called only once no (C, key) task is left on the
\* queue: every task put on it for C has been taken off by a worker.
C1_TwoPhaseOrdering ==
    \A c \in dcalls : \A i \in 1..Len(queue) : queue[i][1] # c

\* tasks were put on the queue, all were taken off by workers, and the
\* containers they belong to have had delete_container called
C1_Witness ==
    /\ dcalls = {1, 2}
    /\ deleted_objects = 3
    /\ dequeued = 3

\* C2: at no delete_container call is a worker thread that has not ended
\* executing a backend delete or holding un-flushed keys in its bulk buffer.
C2_DeletesCompleteBeforeContainerDelete ==
    [][dcalls' # dcalls =>
          \A w \in Started :
              ~Ended(w) => (wpc[w] # "delete" /\ local[w].size = 0)]_vars

\* C3 as stated: when the run ends, for whatever reason, as many tasks were
\* dequeued as were enqueued and none is left on the queue.
C3_LosslessEveryRun ==
    Terminated => (dequeued = deleted_objects /\ queue = <<>>)

\* C3, amended: when the run ends with delete() having returned (status 0),
\* as many tasks were dequeued as were enqueued and none is left on the queue.
C3_LosslessCompletedRun ==
    status = "0" => (dequeued = deleted_objects /\ queue = <<>>)

\* a completed run that put tasks on the queue, by both kinds of put
C3_Witness ==
    /\ status = "0"
    /\ deleted_objects = 3
    /\ queue_size = 1

\* C4: the queue never holds more than queue_size tasks.
C4_QueueBounded == Len(queue) <= queue_size

\* a put of the producer filled the queue to queue_size after workers had
\* already taken tasks off it
C4_Witness ==
    /\ pc = "atq_put"
    /\ di > 1
    /\ Len(queue) = queue_size
    /\ deleted_objects > queue_size

\* C5: when a signal arrives while workers are active and its handler's
\* finish() has set the flag and waits in its joins, every started worker
\* thread terminates and the joins return (the process then ends).
C5_SignalStopsWorkers ==
    (signalled /\ pc = "join") ~>
        (finished /\ pc = "killed" /\ \A w \in Started : Ended(w))

\* C6 as stated: once a worker's delete has raised, no task that was on the
\* queue at that moment is dequeued.
C6_NoDequeueAfterRaise ==
    [][(raised /\ dequeued' # dequeued) => dequeued' > atRaise]_vars

\* C6, amended: a worker that ended by an exception leaves finished true, and
\* while finished is true each worker dequeues at most one task (the one
\* whose loop test came before the flag was set).
C6_AtMostOneDequeueOnceFinished ==
    /\ (\E w \in Workers : wpc[w] = "dead") => finished
    /\ \A w \in Workers : late[w] <= 1
    /\ \A w \in Workers : late[w] = 1 => wpc[w] \notin {"acquire", "locked"}

\* a delete raised, finished was set, and another worker still dequeued a
\* task that was on the queue when the delete raised
C6_Witness ==
    /\ raised
    /\ finished
    /\ \E w \in Workers : late[w] = 1 /\ wpc[w] = "delete" /\ dequeued <= atRaise

\* C7: a run ends with status 0 only if no fatal or unrecovered error occurred.
C7_StatusReflectsErrors == status = "0" => errors = {}

\* C8: after a worker's delete raised (and with no signal), the run eventually
\* ends with every started worker thread terminated.
C8_AbortTerminates ==
    (raised /\ ~signalled) ~>
        (signalled \/ (pc = "done" /\ \A w \in Started : Ended(w)))

\* C9: once a worker's delete has raised, no delete_container call is made.
C9_NoContainerDeleteAfterRaise == [][raised => dcalls' = dcalls]_vars

\* C10: a worker thread that has ended ran init_thread exactly once and
\* cleanup_thread exactly once.
C10_InitAndCleanupOnce ==
    \A w \in Workers : Ended(w) => (inits[w] = 1 /\ cleanups[w] = 1)

\* C11: whenever a call to finish() returns, every started worker thread
\* has ended; stated for the runs no signal interrupts, where finish() is
\* called from delete() and from __exit__ only
C11_FinishReturnsAfterWorkersEnd ==
    [][(~signalled' /\ pc \in {"finish", "join"} /\ pc' \notin {"finish", "join"})
          => \A w \in Started : wpc'[w] \in {"stopped", "dead"}]_vars

\* C12: a call to finish() made after an earlier call has returned finds
\* finished true, leaves the flag, the roster, the queue, the lock and the
\* workers as they are, and returns without joining any thread
C12_FinishIdempotent ==
    [][(returned /\ pc = "finish" /\ pc' # "finish")
          => /\ finished /\ finished'
             /\ pc' = ret
             /\ UNCHANGED <<shared, wrk>>]_vars

\* the run that completes: finish() has returned after the drain barrier and
\* the call made by __exit__ has returned too
C12_Witness ==
    /\ pc = "end" /\ code = 0 /\ returned
    /\ Len(threads) = 2 /\ \A w \in Started : Ended(w)

\* C13: when add_to_queue(data) returns, the items it has put on the queue
\* are exactly the items of data, each once, in the order given
C13_AddToQueuePutsAll ==
    [][(pc = "atq_put" /\ pc' \in {"for_file", "while_finished"})
          => puts = data]_vars

\* add_to_queue returned after putting two items on a queue of size 1: the
\* second put found the queue full and waited for a worker
C13_Witness ==
    /\ pc = "for_file" /\ data = <<>> /\ lock = Free
    /\ queue_size = 1 /\ Len(puts) = 2 /\ deleted_objects = 2

ExpectedSizes(m, n) ==
    [i \in 1..((m + n - 1) \div n) |-> IF i * n <= m THEN n ELSE m % n]

BatchSizes == [i \in 1..Len(bulk_calls) |-> Len(bulk_calls[i])]

\* C15: once the worker has stopped, bulk-delete was invoked with
\* floor(m / n) batches of n keys and then one batch of m mod n keys, and
\* every key is in exactly one batch
C15_BatchesOfBulkSize ==
    upc = "stopped" =>
        /\ BatchSizes = ExpectedSizes(requests, bulk_size)
        /\ Concat(bulk_calls) = [i \in 1..requests |-> i]

\* C15, amended: every key received is in exactly one batch or still in the
\* buffer, no batch is empty or larger than bulk_size, nothing is buffered
\* once the worker has stopped, and the batches are floor(m / n) of n keys
\* and then one of m mod n keys unless list_objects of the legacy class
\* forced a flush in between
C15_BatchesUnlessForced ==
    /\ Concat(bulk_calls) \o local[1].data[1] = [i \in 1..requested |-> i]
    /\ \A i \in 1..Len(bulk_calls) :
          Len(bulk_calls[i]) >= 1 /\ Len(bulk_calls[i]) <= bulk_size
    /\ upc = "stopped" => (requested = requests /\ local[1].size = 0)
    /\ (upc = "stopped" /\ ~forced) =>
          BatchSizes = ExpectedSizes(requests, bulk_size)

\* 7 keys with bulk_size 3 went out as batches of 3, 3 and 1
C15_Witness ==
    /\ upc = "stopped" /\ ~forced
    /\ bulk_size = 3 /\ requests = 7
    /\ BatchSizes = <<3, 3, 1>>

\* C16: for every non-empty list of prefixes, list_containers returns the
\* containers whose name starts with at least one prefix, each once, in
\* the order of the provider's listing
C16_PrefixFilterInListingOrder ==
    (upc = "listed" /\ prefixes # <<>>) =>
        listed = SelectSeq(provider_listing,
                     LAMBDA name : \E i \in 1..Len(prefixes) : StartsWith(name, prefixes[i]))

C18_DeleteFailureDoesNotHalt ==
    (raised /\ pc = "barrier") => \A c \in Containers : marker[c] = NumObjects[c]

C20_FailedDeleteStopsWorker ==
    [][\A w \in Workers :
          (wpc[w] \in {"except", "caught"} /\ wpc'[w] # wpc[w])
             => (wpc'[w] = "dead" /\ finished')]_vars

\* C21: cancellation is cooperative: a worker inside a backend delete call
\* leaves it only by the call's own return or exception, whatever the flag
\* says, and a worker dequeues at most one task while finished is true, the
\* one its loop test let through, and is back at its loop test or beyond
\* after it
C21_CooperativeCancellation ==
    /\ [](\A w \in Workers :
             /\ late[w] <= 1
             /\ ~(late[w] = 1 /\ wpc[w] \in {"acquire", "locked"}))
    /\ [][\A w \in Workers :
             (wpc[w] = "delete" /\ wpc'[w] # "delete")
                => /\ wpc'[w] \in {"loop", "except", "caught"}
                   /\ task'[w] = IF wpc'[w] = "except" THEN task[w] ELSE NoTask]_vars

\* a signal set finished while a worker was between its loop test and its
\* dequeue: the worker took that one task, finished the delete and stopped
C21_Witness ==
    /\ signalled /\ finished /\ ~raised
    /\ \E w \in Workers : late[w] = 1 /\ wpc[w] = "stopped" /\ cleanups[w] = 1

\* C22: in add_to_queue the producer never waits for queue space while it
\* holds the lock: it polls for space with the lock released, and whenever it
\* stands at the blocking put, lock held again, the queue is not full, so the
\* put goes through at once
C22_ProducerNeverWaitsWithLock ==
    /\ pc \in {"atq_wait", "atq_reacquire"} => lock # Main
    /\ pc = "atq_blockput" => lock = Main /\ ~full(queue)

\* the producer is at the blocking put, lock held, after a wait for space,
\* while a worker waits for the lock to dequeue
C22_Witness ==
    /\ pc = "atq_blockput" /\ lock = Main /\ ~full(queue)
    /\ \E w \in Workers : wpc[w] = "acquire"

\* C23: with bulk batching, a worker thread that has ended, by its loop test
\* or by an exception of its own delete or flush, has handed every key of its
\* pending buffer to a bulk delete: no worker ends with a non-empty buffer
C23_NoWorkerEndsWithBufferedKeys ==
    \A w \in Workers :
        (bulk_size > 1 /\ wpc[w] \in {"stopped", "dead"}) => local[w].size = 0

\* the keys held in the container groups of a buffer
KeyCount(l) == Len(Concat(l.data))

\* the container groups present in a buffer
Groups(l) == {c \in Containers : l.data[c] # <<>>}

\* C24: with bulk_size > 1, after every delete_object call the buffered count
\* is below bulk_size and is the number of keys in the container groups; a
\* call that brings the count to bulk_size flushes, with one bulk call for
\* every container group present, each with the keys of its group, and
\* leaves an empty buffer with count 0; any other call only appends
C24_BufferedCountBelowBulkSize ==
    /\ [](/\ local[1].size < bulk_size
          /\ local[1].size = KeyCount(local[1]))
    /\ [][requested' = requested + 1 =>
            \E c \in Containers :
               LET b == Buffered(local[1], <<c, requested'>>)
                   new == SubSeq(bulk_calls', Len(bulk_calls) + 1, Len(bulk_calls'))
               IN  IF b.size >= bulk_size
                      THEN /\ Len(new) = Cardinality(Groups(b))
                           /\ \A g \in Groups(b) :
                                 \E i \in 1..Len(new) : new[i] = <<g, b.data[g]>>
                           /\ local'[1].size = 0
                           /\ Groups(local'[1]) = {}
                      ELSE /\ new = <<>>
                           /\ local'[1] = b]_vars

\* a buffer holding keys of two containers reached bulk_size and was
\* flushed with two bulk calls
C24_Witness ==
    /\ upc = "groups" /\ bulk_size = 2 /\ requested = 2
    /\ Len(bulk_calls) = 2 /\ bulk_calls[1][1] # bulk_calls[2][1]
    /\ local[1].size = 0

\* C25: whenever the controller issues a list_objects request for a
\* container of which it has already processed a page, the queue holds at
\* most max_threads / 2 tasks
C25_QueueThrottledBeforeNextListing ==
    [][(pc = "list_objects" /\ pc' # "list_objects" /\ ~signalled'
           /\ marker[containers[ci]] > 0)
          => qsize(queue) <= HalfThreads]_vars

\* C26: the producer's batch never holds more than max_threads / 2 + 1
\* tasks; once it holds more than max_threads / 2 the controller is inside
\* add_to_queue with it, and the batch is empty whenever a listing request
\* starts and when the enumeration has ended
C26_BatchBounded ==
    /\ Len(data) <= HalfThreads + 1
    /\ (Len(data) > HalfThreads /\ ~signalled) =>
          pc \in {"atq_acquire", "atq_put", "atq_wait", "atq_reacquire",
                  "atq_blockput"}
    /\ pc \in {"while_finished", "list_objects", "for_container", "barrier"}
          => data = <<>>

\* with max_threads = 3 a batch of two tasks is being handed to add_to_queue
C26_Witness ==
    /\ max_threads = 3
    /\ pc = "atq_acquire" /\ atq_ret = "for_file"
    /\ Len(data) = HalfThreads + 1

\* C27: the counter of enqueued objects never decreases, and whenever the
\* lock is free it is the number of tasks put on the queue so far: the tasks
\* still queued plus the tasks dequeued
C27_CounterMatchesPuts ==
    /\ [](lock = Free => deleted_objects = qsize(queue) + dequeued)
    /\ [][deleted_objects' >= deleted_objects]_vars

\* the lock is free, three tasks were counted, some of them are dequeued
\* and some still queued
C27_Witness ==
    /\ lock = Free
    /\ deleted_objects = 3 /\ dequeued >= 1 /\ qsize(queue) >= 1

\* C28: a run starts exactly max_threads - 1 workers, all of them after
\* login and the container listing succeeded and before the first task is
\* enqueued: workers exist only when neither setup step failed, there are
\* never more than max_threads - 1, and all of them exist once the controller
\* is past the start loop
C28_WorkersStartedOnceAfterSetup ==
    /\ Len(threads) <= max_threads - 1
    /\ threads # <<>> => errors \cap {"login", "list_containers"} = {}
    /\ (pc = "for_container" \/ deleted_objects > 0 \/ marker # <<0, 0>>)
          => Len(threads) = max_threads - 1

\* a backend call failed or a signal arrived
Disturbed ==
    \/ signalled \/ raised \/ errors # {} \/ attempts > 1
    \/ \E w \in Workers : wpc[w] = "caught"

\* every object of every container was enqueued and dequeued, the drain
\* barrier was passed, every worker has stopped and delete_container was
\* called for every container
Completed ==
    /\ \A c \in Containers : marker[c] = NumObjects[c]
    /\ queue = <<>> /\ dequeued = deleted_objects
    /\ pc \in {"__exit__", "end", "done"}
    /\ Len(threads) = max_threads - 1
    /\ \A w \in Started : wpc[w] = "stopped"
    /\ dcalls = Containers

\* C29: with at least one worker, under fair scheduling, a run in which
\* every backend call succeeds and no signal arrives eventually has every
\* enqueued task dequeued, the drain barrier passed, every worker stopped
\* and delete_container called for every container
C29_SuccessfulRunCompletes ==
    max_threads >= 2 => <>(Disturbed \/ Completed)

\* an undisturbed run with two workers has completed and ended with status 0
C29_Witness ==
    /\ max_threads = 3 /\ ~Disturbed /\ Completed
    /\ pc = "done" /\ status = "0" /\ dequeued = 3

\* C30: for every accepted configuration, max_threads = 1 included, a run
\* in which every backend call succeeds and no signal arrives eventually
\* terminates: the tasks enqueued are consumed, the throttle loop and the
\* drain barrier are passed and the process ends
C30_EveryConfigurationTerminates ==
    <>(Disturbed \/ (pc = "done" /\ queue = <<>> /\ dequeued = deleted_objects))

\* C31: a worker about to execute queue.get() holds the lock and the queue
\* is not empty, so the get returns at once: no worker waits inside get()
\* with the lock held, however many workers poll
C31_GetOnlyOnNonEmptyQueue ==
    \A w \in Workers : wpc[w] = "get" => (lock = w /\ ~empty(queue))

\* a worker is about to get the only task of the queue while another worker
\* waits for the lock
C31_Witness ==
    \E w, v \in Workers :
        /\ w # v
        /\ wpc[w] = "get" /\ qsize(queue) = 1
        /\ wpc[v] = "acquire"

\* C32: each task put on the queue is handed to at most one worker and is
\* the subject of at most one backend delete request: no task was returned
\* by two gets, a task returned by a get is no longer on the queue, and
\* every delete request was made once, by the worker that received the task
C32_TaskHandedToOneWorker ==
    /\ \A i, j \in 1..Len(gets) : i # j => gets[i][2] # gets[j][2]
    /\ \A i \in 1..Len(gets), k \in 1..Len(queue) : gets[i][2] # queue[k]
    /\ \A i, j \in 1..Len(deletes) : i # j => deletes[i][2] # deletes[j][2]
    /\ \A i \in 1..Len(deletes) : \E j \in 1..Len(gets) : gets[j] = deletes[i]

\* every task of the batch was deleted, and two workers took part
C32_Witness ==
    /\ Len(deletes) = MaxPuts
    /\ \E i, j \in 1..Len(gets) : gets[i][1] # gets[j][1]

\* C33: a worker holds the lock exactly from its acquire to the release of
\* the branch it takes: never while it is inside the backend delete call or
\* asleep, never at its loop test, and never once its thread has ended
C33_WorkerLockOnlyAroundDequeue ==
    \A w \in Workers :
        /\ lock = w <=> wpc[w] \in {"locked", "get", "release", "else"}
        /\ wpc[w] \in {"delete", "sleep", "loop", "stopped", "dead"} => lock # w

\* one worker sleeps and another is inside its delete call while the
\* producer holds the lock
C33_Witness ==
    /\ lock = Main
    /\ \E w, v \in Workers : wpc[w] = "sleep" /\ wpc[v] = "delete"

====
